---- MODULE Spec2Model ----
(***************************************************************************)
(* Model of src/index.js: the automated "subscribe" submission engine.     *)
(*                                                                         *)
(* The script is one async function.  Each action below is one run of the  *)
(* script from the resolution of an awaited call to the next await (or to  *)
(* process.exit), which is how a JavaScript engine schedules it.           *)
(*                                                                         *)
(* Numbers.  A JavaScript number typed by the operator or drawn by         *)
(* Math.random is modelled as an integer count of grid units, one unit     *)
(* being 10^-GridDigits.  Strings are sequences of one-character strings,  *)
(* so that toFixed, toString and parseUnits are computed digit by digit.   *)
(* Ledger integers (BigNumber of ethers v5, bigint of ethers v6) are       *)
(* naturals.                                                               *)
(***************************************************************************)
EXTENDS Integers, Sequences, FiniteSets, TLC

\* ---------------------------------------------------------------- bounds
GridDigits == 1      \* the number grid is 10^-GridDigits
MaxLoops == 3        \* largest loop count the operator types
MaxDecimals == 1     \* largest token precision returned by decimals()

\* ------------------------------------------------------ program constants
MAX_ATTEMPTS == 8
BASE_DELAY_MS == 2000

\* ------------------------------------------------------------ arithmetic
RECURSIVE Pow(_, _)
Pow(b, e) == IF e = 0 THEN 1 ELSE b * Pow(b, e - 1)

Scale == Pow(10, GridDigits)

\* ---------------------------------------------------------------- strings
DigitChars == <<"0", "1", "2", "3", "4", "5", "6", "7", "8", "9">>

DigitChar(k) == DigitChars[k + 1]

CharValue(c) == CHOOSE k \in 0..9 : DigitChars[k + 1] = c

\* The code unit order of the characters that occur: "." sorts before digits.
CharCode(c) == IF c = "." THEN 0 ELSE 1 + CharValue(c)

\* Decimal digits of a natural, most significant first, no leading zeros.
RECURSIVE Digits(_)
Digits(n) == IF n < 10 THEN <<DigitChar(n)>>
             ELSE Digits(n \div 10) \o <<DigitChar(n % 10)>>

\* The w low decimal digits of n, zero-padded on the left to width w.
RECURSIVE PadDigits(_, _)
PadDigits(n, w) == IF w = 0 THEN <<>>
                   ELSE PadDigits(n \div 10, w - 1) \o <<DigitChar(n % 10)>>

RECURSIVE StripTrailingZeros(_)
StripTrailingZeros(s) ==
    IF Len(s) > 0 /\ s[Len(s)] = "0"
    THEN StripTrailingZeros(SubSeq(s, 1, Len(s) - 1))
    ELSE s

RECURSIVE StrToNat(_)
StrToNat(s) == IF Len(s) = 0 THEN 0
               ELSE 10 * StrToNat(SubSeq(s, 1, Len(s) - 1)) + CharValue(s[Len(s)])

\* Position of the first "." of s, or 0.
DotIndex(s) == IF \E k \in 1..Len(s) : s[k] = "."
               THEN CHOOSE k \in 1..Len(s) : s[k] = "." /\ \A j \in 1..(k - 1) : s[j] # "."
               ELSE 0

WholePart(s) == IF DotIndex(s) = 0 THEN s ELSE SubSeq(s, 1, DotIndex(s) - 1)

FracPart(s) == IF DotIndex(s) = 0 THEN <<>> ELSE SubSeq(s, DotIndex(s) + 1, Len(s))

\* JavaScript's < on two strings: code unit by code unit, a proper prefix first.
RECURSIVE StrLess(_, _)
StrLess(a, b) ==
    IF Len(b) = 0 THEN FALSE
    ELSE IF Len(a) = 0 THEN TRUE
    ELSE IF a[1] # b[1] THEN CharCode(a[1]) < CharCode(b[1])
    ELSE StrLess(Tail(a), Tail(b))

\* ------------------------------------------------- JavaScript numbers
\* Number.prototype.toString of the non-negative number v / Scale: the
\* shortest decimal, no trailing zeros, no "." for an integer.  (Grid values
\* are at least 10^-GridDigits, so the exponent form of numbers below 1e-6
\* or from 1e21 on never arises.)
NumberToString(v) ==
    LET frac == StripTrailingZeros(PadDigits(v % Scale, GridDigits))
    IN  IF Len(frac) = 0 THEN Digits(v \div Scale)
        ELSE Digits(v \div Scale) \o <<".">> \o frac

\* Variant of RoundedUnits: the digits beyond the d-th are cut off.
RoundedUnitsTruncated(v, d) == (v * Pow(10, d)) \div Scale

\* The integer n for which n / 10^d is closest to v / Scale, the larger one
\* of two equally close (Number.prototype.toFixed, step "pick the larger n").
RoundedUnits(v, d) == (2 * v * Pow(10, d) + Scale) \div (2 * Scale)

\* Number.prototype.toFixed(d) of v / Scale: exactly d fractional digits,
\* and no "." when d = 0.
ToFixed(v, d) ==
    LET n == RoundedUnits(v, d)
    IN  IF d = 0 THEN Digits(n)
        ELSE Digits(n \div Pow(10, d)) \o <<".">> \o PadDigits(n % Pow(10, d), d)

\* randomFloat(min, max) = Math.random() * (max - min) + min with
\* Math.random() in [0, 1): the grid points of [min, max), and min itself
\* when max = min.
RandomFloats(min, max) == IF max = min THEN {min} ELSE min..(max - 1)

\* Math.floor(delaySec * 1000) for delaySec = y / Scale.
SleepMs(y) == (y * 1000) \div Scale

\* ------------------------------------------------------- ethers bindings
\* parseUnits(s, d) of ethers v5 and v6: the fraction, trailing zeros
\* dropped, may hold at most d digits, else the call throws.
ParseUnits(s, d) ==
    LET frac == StripTrailingZeros(FracPart(s))
    IN  IF Len(frac) > d
        THEN [ok |-> FALSE, val |-> 0]
        ELSE [ok |-> TRUE,
              val |-> StrToNat(WholePart(s)) * Pow(10, d)
                      + StrToNat(frac) * Pow(10, d - Len(frac))]

\* Line 136.  With ethers v5 the allowance is a BigNumber object: it has an
\* lt method, and when lt answers false the right operand of || compares two
\* objects with <, which JavaScript does on their toString() values, as
\* strings.  With ethers v6 it is a bigint: allowance.lt is undefined and <
\* compares the integers.
AllowTooSmall(v, a, needed) ==
    IF v = "v5"
    THEN (a < needed) \/ StrLess(Digits(a), Digits(needed))
    ELSE a < needed

\* ----------------------------------------------------------------- inputs
\* What parseFloat / parseInt make of a prompt answer: NaN, or a number.
NaN == [nan |-> TRUE, v |-> 0]

Num(k) == [nan |-> FALSE, v |-> k]

\* Amounts the operator types, in grid units (0.2 and 1 when GridDigits = 1),
\* with 0 and a non-numeric answer.
AmountInputs == {NaN} \cup {Num(k) : k \in {0, 2, 10}}

LoopInputs == {NaN} \cup {Num(k) : k \in -1..MaxLoops}

\* Delays the operator types, in grid units of a second.
DelayInputs == {NaN} \cup {Num(k) : k \in {-1, 0, 2}}

\* Precisions the token's decimals() may return.
DecimalsValues == 0..MaxDecimals

\* Allowances the token's allowance() may return.
AllowanceValues == {3, 10}

\* The ethers package found by require: version 6, version 5, or neither.
LibShapes == {"v6", "v5", "none"}

\* SUBSCRIBE_VALUE of the environment: the default "0", or text that
\* parseEther rejects.
SubscribeValues == {"0", "abc"}

\* GAS_LIMIT of the environment: the default of line 11.
GasLimits == {400000}

\* Width of the token's integers in the model; the token's is 256.
UintBits == 16

\* The constant of lines 49 and 58, at the model's width.
MaxUint256 == Pow(2, UintBits) - 1

\* ------------------------------------------------------------------ state
VARIABLES
    pc,              \* the await the script is suspended at
    envOk,           \* RPC_URL, PRIVATE_KEY, CONTRACT_ADDRESS, USDT_ADDRESS all set
    lib,             \* shape of the ethers package
    SUBSCRIBE_VALUE, \* environment text of the attached payment
    GAS_LIMIT,       \* environment value of the gas limit, as Number() reads it
    attempt,         \* loop variable of the connect loop, 0 outside it
    provider,        \* "none", "unverified" (created, getNetwork asked) or "verified"
    delay,           \* backoff computed at line 79, 0 outside its block
    minVal, maxVal, loops, delayMin, delayMax,
    decimalsNum, approxMaxNeeded, allowance,
    i,               \* loop variable of the submission loop
    nominal, nominalStr, amountParsed,
    valueWei,        \* parseEther(SUBSCRIBE_VALUE), -1 before line 147
    delaySec,        \* delay drawn at line 176, 0 outside its block
    calls,           \* how often each token or contract call was issued
    backoffs,        \* the sleeps of the connect loop so far, in ms
    sleeps,          \* how many inter-iteration sleeps were started
    inflight,        \* subscribe submissions neither confirmed nor thrown
    outcomes,        \* the report line of each finished iteration
    exitCode,        \* -1 while running
    exitVia,         \* which statement ended the process
    thrown,          \* the call whose exception reached the top-level catch
    aprRcpt,         \* "none", or "receipt" once approveTx.wait() has answered
    ledger,          \* the allowance the token records for the contract
    ledgerOn         \* whether the run follows the token's record

vars == <<pc, envOk, lib, SUBSCRIBE_VALUE, GAS_LIMIT, attempt, provider, delay,
          minVal, maxVal, loops, delayMin, delayMax,
          decimalsNum, approxMaxNeeded, allowance,
          valueWei, i, nominal, nominalStr, amountParsed, delaySec,
          calls, backoffs, sleeps, inflight, outcomes, exitCode, exitVia, thrown,
          aprRcpt, ledger, ledgerOn>>

envVars == <<envOk, lib, SUBSCRIBE_VALUE, GAS_LIMIT>>

chainVars == <<aprRcpt, ledger, ledgerOn>>

connVars == <<attempt, provider, delay, backoffs>>

cfgVars == <<minVal, maxVal, loops, delayMin, delayMax>>

tokenVars == <<decimalsNum, approxMaxNeeded, allowance>>

iterVars == <<i, nominal, nominalStr, amountParsed>>

NoCalls == [decimals |-> 0, allowance |-> 0, approve |-> 0, subscribe |-> 0]

Called(name) == [calls EXCEPT ![name] = @ + 1]

\* The state before the first statement, but for the token's record.
InitRun ==
    /\ pc = "start"
    /\ envOk \in BOOLEAN
    /\ lib \in LibShapes
    /\ SUBSCRIBE_VALUE \in SubscribeValues
    /\ GAS_LIMIT \in GasLimits
    /\ attempt = 0
    /\ provider = "none"
    /\ delay = 0
    /\ minVal = 0 /\ maxVal = 0 /\ loops = 0 /\ delayMin = 0 /\ delayMax = 0
    /\ decimalsNum = 0 /\ approxMaxNeeded = 0 /\ allowance = 0
    /\ i = 0 /\ nominal = 0 /\ nominalStr = <<>> /\ amountParsed = 0
    /\ valueWei = -1
    /\ delaySec = 0
    /\ calls = NoCalls
    /\ backoffs = <<>>
    /\ sleeps = 0
    /\ inflight = 0
    /\ outcomes = <<>>
    /\ exitCode = -1
    /\ exitVia = "none"
    /\ thrown = "none"
    /\ aprRcpt = "none"
    /\ ledger = 0

Init == InitRun /\ ledgerOn = FALSE

\* The same start, with the token's record of the allowance followed from
\* the allowance() answer on.
InitLedger == InitRun /\ ledgerOn = TRUE

\* process.exit(1) of a startup check: lines 16, 31, 38, 77, 118, 122.
Exit(via) ==
    /\ pc' = "exited"
    /\ exitCode' = 1
    /\ exitVia' = via
    /\ thrown' = thrown

\* The call named `at` throws inside the try of lines 97-182: the top-level
\* catch, lines 183-186.
Fatal(at) ==
    /\ pc' = "exited"
    /\ exitCode' = 1
    /\ exitVia' = "fatal"
    /\ thrown' = at

Running == UNCHANGED <<exitCode, exitVia, thrown>>

\* parseEther(text): the two environment texts of the model.
ParseEther(text) == IF text = "0" THEN [ok |-> TRUE, val |-> 0]
                    ELSE [ok |-> FALSE, val |-> 0]

\* ------------------------------------------------------- connect phase
\* Lines 14-17 (environment), 28-39 (ethers shape) and the first pass of
\* the connect loop up to its await, lines 63-70.
Startup ==
    /\ pc = "start"
    /\ IF ~envOk
       THEN Exit("env") /\ UNCHANGED <<attempt, provider>>
       ELSE IF lib = "none"
       THEN Exit("ethers") /\ UNCHANGED <<attempt, provider>>
       ELSE /\ attempt' = 1
            /\ provider' = "unverified"
            /\ pc' = "getNetwork"
            /\ Running
    /\ UNCHANGED <<envVars, chainVars, calls, delay, backoffs, cfgVars, tokenVars, valueWei, iterVars,
                   delaySec, sleeps, inflight, outcomes>>

\* getNetwork answers: lines 71-72 (break), then 85-108 up to the prompts.
\* The break leaves the scope of attempt; the record of the loop's sleeps
\* ends with the loop.
ConnectOk ==
    /\ pc = "getNetwork"
    /\ provider' = "verified"
    /\ attempt' = 0
    /\ backoffs' = <<>>
    /\ pc' = "prompts"
    /\ Running
    /\ UNCHANGED <<envVars, chainVars, delay, cfgVars, tokenVars, valueWei,
                   iterVars, delaySec, calls, sleeps, inflight, outcomes>>

\* Variant of BackoffDelay: the exponent is the attempt number.
BackoffDelayFromFour(k) == BASE_DELAY_MS * Pow(2, k)

\* The backoff of line 79.
BackoffDelay(k) == BASE_DELAY_MS * Pow(2, k - 1)

\* Variant of ConnectFail: the budget test lets one more attempt through.
ConnectFailOneMore ==
    /\ pc = "getNetwork"
    /\ IF attempt = MAX_ATTEMPTS + 1
       THEN Exit("rpc") /\ UNCHANGED <<delay, backoffs>>
       ELSE /\ delay' = BackoffDelay(attempt)
            /\ backoffs' = Append(backoffs, delay')
            /\ pc' = "backoff"
            /\ Running
    /\ UNCHANGED <<envVars, chainVars, attempt, provider, cfgVars, tokenVars, valueWei, iterVars,
                   delaySec, calls, sleeps, inflight, outcomes>>

\* The try block throws: lines 73-81.
ConnectFail ==
    /\ pc = "getNetwork"
    /\ IF attempt = MAX_ATTEMPTS
       THEN Exit("rpc") /\ UNCHANGED <<delay, backoffs>>
       ELSE /\ delay' = BackoffDelay(attempt)
            /\ backoffs' = Append(backoffs, delay')
            /\ pc' = "backoff"
            /\ Running
    /\ UNCHANGED <<envVars, chainVars, attempt, provider, cfgVars, tokenVars, valueWei, iterVars,
                   delaySec, calls, sleeps, inflight, outcomes>>

\* sleep(delay) resolves: attempt++ (line 66) and the next pass, lines 68-70.
BackoffDone ==
    /\ pc = "backoff"
    /\ attempt' = attempt + 1
    /\ delay' = 0
    /\ provider' = "unverified"
    /\ pc' = "getNetwork"
    /\ Running
    /\ UNCHANGED <<envVars, chainVars, calls, backoffs, cfgVars, tokenVars, valueWei, iterVars,
                   delaySec, sleeps, inflight, outcomes>>

\* ------------------------------------------------ prompts and validation
\* Line 116.
AnyNaN(ins) == \E k \in 1..Len(ins) : ins[k].nan

\* Line 120.
RangeInvalid(mn, mx, lp, dmn, dmx) ==
    mn <= 0 \/ mx <= 0 \/ lp <= 0 \/ dmn < 0 \/ dmx < 0 \/ mx < mn \/ dmx < dmn

\* Variant of Prompts: decimals() is asked before the answers are validated.
PromptsValidatedLate(mn, mx, lp, dmn, dmx) ==
    /\ pc = "prompts"
    /\ calls' = Called("decimals")
    /\ IF AnyNaN(<<mn, mx, lp, dmn, dmx>>)
       THEN Exit("input") /\ UNCHANGED cfgVars
       ELSE IF RangeInvalid(mn.v, mx.v, lp.v, dmn.v, dmx.v)
       THEN Exit("range") /\ UNCHANGED cfgVars
       ELSE /\ minVal' = mn.v /\ maxVal' = mx.v /\ loops' = lp.v
            /\ delayMin' = dmn.v /\ delayMax' = dmx.v
            /\ pc' = "decimals"
            /\ Running
    /\ UNCHANGED <<envVars, chainVars, connVars, tokenVars, valueWei, iterVars, delaySec,
                   sleeps, inflight, outcomes>>

\* The five answers arrive: lines 110-123, then the decimals() call of line 126.
Prompts(mn, mx, lp, dmn, dmx) ==
    /\ pc = "prompts"
    /\ IF AnyNaN(<<mn, mx, lp, dmn, dmx>>)
       THEN Exit("input") /\ UNCHANGED <<cfgVars, calls>>
       ELSE IF RangeInvalid(mn.v, mx.v, lp.v, dmn.v, dmx.v)
       THEN Exit("range") /\ UNCHANGED <<cfgVars, calls>>
       ELSE /\ minVal' = mn.v /\ maxVal' = mx.v /\ loops' = lp.v
            /\ delayMin' = dmn.v /\ delayMax' = dmx.v
            /\ calls' = Called("decimals")
            /\ pc' = "decimals"
            /\ Running
    /\ UNCHANGED <<envVars, chainVars, connVars, tokenVars, valueWei, iterVars, delaySec,
                   sleeps, inflight, outcomes>>

\* ------------------------------------------------------ submission loop
\* The last statement, line 182; the process then ends with code 0.
Finish ==
    /\ pc' = "done"
    /\ exitCode' = 0
    /\ exitVia' = "end"
    /\ thrown' = thrown

\* Lines 150-163: the loop test for i = k, then with the draw x the amount
\* string, its parse, and the subscribe call.
BeginIteration(k, x) ==
    LET str == ToFixed(x, decimalsNum)
        parsed == ParseUnits(str, decimalsNum)
    IN  /\ i' = k
        /\ IF k > loops
           THEN /\ Finish
                /\ UNCHANGED <<nominal, nominalStr, amountParsed, calls, inflight>>
           ELSE /\ nominal' = x
                /\ nominalStr' = str
                /\ IF parsed.ok
                   THEN /\ amountParsed' = parsed.val
                        /\ calls' = Called("subscribe")
                        /\ inflight' = inflight + 1
                        /\ pc' = "subscribe"
                        /\ Running
                   ELSE /\ Fatal("amount")
                        /\ UNCHANGED <<amountParsed, calls, inflight>>

\* Lines 147-150: the attached payment, then the first iteration.
EnterLoop(x) ==
    IF ParseEther(SUBSCRIBE_VALUE).ok
    THEN /\ valueWei' = ParseEther(SUBSCRIBE_VALUE).val
         /\ BeginIteration(1, x)
    ELSE /\ Fatal("parseEther")
         /\ UNCHANGED <<valueWei, iterVars, calls, inflight>>

\* Variant of AfterTry: a failed iteration ends the loop.
AfterTryStopsOnError(outcome, y) ==
    /\ outcomes' = Append(outcomes, outcome)
    /\ IF i < loops /\ outcome = "confirmed"
       THEN /\ inflight' = inflight - 1
            /\ delaySec' = y
            /\ sleeps' = sleeps + 1
            /\ pc' = "delay"
            /\ Running
            /\ UNCHANGED <<iterVars, calls>>
       ELSE /\ inflight' = inflight - 1
            /\ i' = i + 1
            /\ Finish
            /\ UNCHANGED <<nominal, nominalStr, amountParsed, calls, delaySec, sleeps>>
    /\ UNCHANGED <<envVars, connVars, cfgVars, tokenVars, valueWei>>

\* Variant of AfterTry: the sleep also follows the last iteration.
AfterTrySleepsAfterLast(outcome, y) ==
    /\ outcomes' = Append(outcomes, outcome)
    /\ inflight' = inflight - 1
    /\ delaySec' = y
    /\ sleeps' = sleeps + 1
    /\ pc' = "delay"
    /\ Running
    /\ UNCHANGED <<iterVars, calls>>
    /\ UNCHANGED <<envVars, connVars, cfgVars, tokenVars, valueWei>>

\* Lines 167-179 after the try/catch of an iteration: its report line, then
\* the sleep before the next iteration, or i++ and the loop test.
AfterTry(outcome, y) ==
    /\ outcomes' = Append(outcomes, outcome)
    /\ IF i < loops
       THEN /\ inflight' = inflight - 1
            /\ delaySec' = y
            /\ sleeps' = sleeps + 1
            /\ pc' = "delay"
            /\ Running
            /\ UNCHANGED <<iterVars, calls>>
       ELSE /\ inflight' = inflight - 1
            /\ i' = i + 1
            /\ Finish
            /\ UNCHANGED <<nominal, nominalStr, amountParsed, calls, delaySec, sleeps>>
    /\ UNCHANGED <<envVars, connVars, cfgVars, tokenVars, valueWei>>

\* ------------------------------------------------------ allowance phase
\* decimals() answers d: lines 128-132, then the allowance() call of line 133.
DecimalsReturn(d) ==
    LET parsed == ParseUnits(NumberToString(maxVal), d)
    IN  /\ pc = "decimals"
        /\ decimalsNum' = d
        /\ IF parsed.ok
           THEN /\ approxMaxNeeded' = parsed.val
                /\ calls' = Called("allowance")
                /\ pc' = "allowance"
                /\ Running
           ELSE /\ Fatal("parseUnits")
                /\ UNCHANGED <<approxMaxNeeded, calls>>
        /\ UNCHANGED <<envVars, chainVars, connVars, cfgVars, allowance, valueWei, iterVars,
                       delaySec, sleeps, inflight, outcomes>>

\* decimals() throws.
DecimalsThrow ==
    /\ pc = "decimals"
    /\ Fatal("decimals")
    /\ UNCHANGED <<envVars, chainVars, connVars, cfgVars, tokenVars, valueWei, iterVars,
                   delaySec, calls, sleeps, inflight, outcomes>>

\* allowance() answers a: lines 134-139 when the allowance is too small,
\* lines 134-136 and 144-163 (with the draw x) otherwise.
AllowanceReturn(a, x) ==
    /\ pc = "allowance"
    /\ allowance' = a
    /\ IF AllowTooSmall(lib, a, approxMaxNeeded)
       THEN /\ calls' = Called("approve")
            /\ pc' = "approve"
            /\ Running
            /\ UNCHANGED <<valueWei, iterVars, inflight>>
       ELSE EnterLoop(x)
    /\ ledger' = IF ledgerOn THEN a ELSE ledger
    /\ UNCHANGED <<envVars, aprRcpt, ledgerOn, connVars, cfgVars, decimalsNum,
                   approxMaxNeeded, delaySec, sleeps, outcomes>>

\* allowance() throws.
AllowanceThrow ==
    /\ pc = "allowance"
    /\ Fatal("allowance")
    /\ UNCHANGED <<envVars, chainVars, connVars, cfgVars, tokenVars, valueWei, iterVars,
                   delaySec, calls, sleeps, inflight, outcomes>>

\* Variant of ApproveSent: the loop starts without awaiting the confirmation.
ApproveSentNoWait ==
    /\ pc = "approve"
    /\ EnterLoop(minVal)
    /\ UNCHANGED <<envVars, chainVars, connVars, cfgVars, tokenVars, delaySec, sleeps,
                   outcomes>>

\* approve() returns the transaction: lines 140-141.
ApproveSent ==
    /\ pc = "approve"
    /\ pc' = "approveWait"
    /\ Running
    /\ UNCHANGED <<envVars, chainVars, connVars, cfgVars, tokenVars, valueWei, iterVars,
                   delaySec, calls, sleeps, inflight, outcomes>>

\* Variant of ApproveThrow: the failure is logged and the run ends normally.
ApproveThrowSwallowed ==
    /\ pc \in {"approve", "approveWait"}
    /\ pc' = "done"
    /\ exitCode' = 0
    /\ exitVia' = "end"
    /\ thrown' = pc
    /\ UNCHANGED <<envVars, chainVars, connVars, cfgVars, tokenVars, valueWei, iterVars,
                   delaySec, calls, sleeps, inflight, outcomes>>

\* approve() is rejected, or approveTx.wait() throws.
ApproveThrow ==
    /\ pc \in {"approve", "approveWait"}
    /\ Fatal(pc)
    /\ UNCHANGED <<envVars, chainVars, connVars, cfgVars, tokenVars, valueWei, iterVars,
                   delaySec, calls, sleeps, inflight, outcomes>>

\* approveTx.wait() answers: lines 142 and 147-163 with the draw x.
ApproveConfirmed(x) ==
    /\ pc = "approveWait"
    /\ aprRcpt' = "receipt"
    /\ ledger' = IF ledgerOn THEN MaxUint256 ELSE ledger
    /\ EnterLoop(x)
    /\ UNCHANGED <<envVars, ledgerOn, connVars, cfgVars, tokenVars, delaySec, sleeps,
                   outcomes>>

\* --------------------------------------------------- loop, await by await
\* Variant of SubscribeSent: the confirmation is not awaited, the next
\* iteration starts at once.
SubscribeSentNoWait ==
    /\ pc = "subscribe"
    /\ i < loops
    /\ BeginIteration(i + 1, nominal)
    /\ UNCHANGED <<envVars, chainVars, connVars, cfgVars, tokenVars, valueWei,
                   delaySec, sleeps, outcomes>>

\* subscribe() returns the transaction: lines 167-168.
SubscribeSent ==
    /\ pc = "subscribe"
    /\ pc' = "wait"
    /\ Running
    /\ UNCHANGED <<envVars, chainVars, connVars, cfgVars, tokenVars, valueWei, iterVars,
                   delaySec, calls, sleeps, inflight, outcomes>>

\* subscribe() throws: the catch of lines 171-173, then lines 175-179.
SubscribeThrow(y) ==
    /\ pc = "subscribe"
    /\ AfterTry("submission error", y)
    /\ UNCHANGED chainVars

\* tx.wait() answers: lines 169-170, then lines 175-179.
WaitConfirmed(y) ==
    /\ pc = "wait"
    /\ AfterTry("confirmed", y)
    /\ ledger' = IF ledgerOn /\ amountParsed <= ledger THEN ledger - amountParsed
                 ELSE ledger
    /\ UNCHANGED <<aprRcpt, ledgerOn>>

\* Variant of WaitThrow: the exception is not caught inside the loop.
WaitThrowUncaught(y) ==
    /\ pc = "wait"
    /\ Fatal("wait")
    /\ UNCHANGED <<envVars, chainVars, connVars, cfgVars, tokenVars, valueWei, iterVars,
                   delaySec, calls, sleeps, inflight, outcomes>>

\* Variant of WaitThrow: a failed confirmation doubles the upper delay bound
\* of the following iterations.
WaitThrowBacksOff(y) ==
    /\ pc = "wait"
    /\ outcomes' = Append(outcomes, "confirmation error")
    /\ inflight' = inflight - 1
    /\ delayMax' = delayMax + delayMax
    /\ IF i < loops
       THEN /\ delaySec' = y
            /\ sleeps' = sleeps + 1
            /\ pc' = "delay"
            /\ Running
            /\ UNCHANGED <<iterVars, calls>>
       ELSE /\ i' = i + 1
            /\ Finish
            /\ UNCHANGED <<nominal, nominalStr, amountParsed, calls, delaySec, sleeps>>
    /\ UNCHANGED <<envVars, chainVars, connVars, minVal, maxVal, loops, delayMin,
                   tokenVars, valueWei>>

\* tx.wait() throws: the catch of lines 171-173, then lines 175-179.
WaitThrow(y) ==
    /\ pc = "wait"
    /\ AfterTry("confirmation error", y)
    /\ UNCHANGED chainVars

\* The sleep of line 178 resolves: i++ and the next iteration with the draw x.
DelayDone(x) ==
    /\ pc = "delay"
    /\ BeginIteration(i + 1, x)
    /\ delaySec' = 0
    /\ UNCHANGED <<envVars, chainVars, connVars, cfgVars, tokenVars, valueWei,
                   sleeps, outcomes>>

\* ---------------------------------------------------------- specification
Next ==
    \/ Startup
    \/ ConnectOk
    \/ ConnectFail
    \/ BackoffDone
    \/ \E mn, mx \in AmountInputs, lp \in LoopInputs, dmn, dmx \in DelayInputs :
          Prompts(mn, mx, lp, dmn, dmx)
    \/ \E d \in DecimalsValues : DecimalsReturn(d)
    \/ DecimalsThrow
    \/ \E a \in AllowanceValues, x \in RandomFloats(minVal, maxVal) : AllowanceReturn(a, x)
    \/ AllowanceThrow
    \/ ApproveSent
    \/ ApproveThrow
    \/ \E x \in RandomFloats(minVal, maxVal) : ApproveConfirmed(x)
    \/ SubscribeSent
    \/ \E y \in RandomFloats(delayMin, delayMax) : SubscribeThrow(y)
    \/ \E y \in RandomFloats(delayMin, delayMax) : WaitConfirmed(y)
    \/ \E y \in RandomFloats(delayMin, delayMax) : WaitThrow(y)
    \/ \E x \in RandomFloats(minVal, maxVal) : DelayDone(x)

Spec == Init /\ [][Next]_vars

\* Every awaited call eventually returns or throws, and every sleep ends.
SpecLive == Spec /\ WF_vars(Next)

\* The run together with the token's record of the allowance.
SpecLedger == InitLedger /\ [][Next]_vars

\* ================================================================ claims
InLoop == pc \in {"subscribe", "wait", "delay"}

RECURSIVE SumSeq(_)
SumSeq(q) == IF Len(q) = 0 THEN 0 ELSE Head(q) + SumSeq(Tail(q))

IsDigitStr(str) == \A k \in 1..Len(str) : \E j \in 1..10 : str[k] = DigitChars[j]

\* C1: a run that enters the submission loop calls contract.subscribe exactly
\* loops times: every iteration makes one call, a failed iteration neither
\* ends the loop early nor is tried again, and a run that has entered the
\* loop and has ended has made loops calls.
C1_SubscribeExactlyLoopCount ==
    /\ calls.subscribe <= loops
    /\ calls.subscribe = Len(outcomes) + inflight
    /\ InLoop => calls.subscribe = i
    /\ (i >= 1 /\ pc \in {"done", "exited"}) => calls.subscribe = loops

\* A finished run of three iterations whose first two failed, one in the
\* submission and one in the confirmation.
C1_Witness ==
    /\ pc = "done"
    /\ loops = 3
    /\ calls.subscribe = 3
    /\ outcomes = <<"submission error", "confirmation error", "confirmed">>

\* C2 as stated: once the connection and allowance phases have succeeded the
\* run does not end in the fatal handler.
AllowancePhaseSucceeded ==
    /\ calls.allowance = 1
    /\ pc \notin {"allowance", "approve", "approveWait"}
    /\ thrown \notin {"allowance", "approve", "approveWait"}

C3_ApproveOnlyWhenAllowanceTooSmall ==
    /\ calls.approve <= 1
    /\ calls.approve = 1 => allowance < approxMaxNeeded

C5_ConnectAtMostEight ==
    /\ attempt \in 0..8
    /\ pc = "getNetwork" => attempt >= 1 /\ Len(backoffs) = attempt - 1
    /\ pc = "backoff" => attempt >= 1 /\ Len(backoffs) = attempt
    /\ exitVia = "rpc" =>
          attempt = 8 /\ provider = "unverified" /\ calls = NoCalls /\ exitCode = 1
    /\ (pc \in {"prompts", "decimals", "allowance", "approve", "approveWait",
                "subscribe", "wait", "delay", "done"} \/ calls # NoCalls)
          => provider = "verified"

\* All 8 attempts have failed.
C5_Witness == exitVia = "rpc" /\ attempt = 8 /\ pc = "exited"

\* C6: the k-th backoff sleep is 2000 * 2^(k-1) ms, for k up to 7; the sleep
\* in progress is the one of the attempt that just failed; no sleep follows
\* a successful attempt nor the 8th failure, so that an exhausted connect
\* phase has slept 7 times, 254000 ms in all.
C6_BackoffSchedule ==
    /\ Len(backoffs) <= 7
    /\ \A k \in 1..Len(backoffs) : backoffs[k] = 2000 * Pow(2, k - 1)
    /\ pc = "backoff" => delay = 2000 * Pow(2, attempt - 1) /\ Len(backoffs) = attempt
    /\ pc = "getNetwork" => Len(backoffs) = attempt - 1
    /\ provider = "verified" => pc # "backoff" /\ delay = 0
    /\ exitVia = "rpc" => Len(backoffs) = 7 /\ SumSeq(backoffs) = 254000

\* The connect phase is exhausted after its seven sleeps.
C6_Witness == exitVia = "rpc" /\ Len(backoffs) = 7 /\ backoffs[7] = 128000

C9_ApproveFailureIsFatal ==
    thrown \in {"approve", "approveWait"} =>
        /\ pc = "exited" /\ exitVia = "fatal" /\ exitCode = 1
        /\ calls.subscribe = 0 /\ i = 0
        /\ ~ENABLED Next

\* The confirmation wait of the approve transaction has thrown.
C9_Witness == thrown = "approveWait" /\ exitCode = 1 /\ calls.approve = 1

\* C10: at most one subscribe is in flight, exactly while the script awaits
\* its submission or its confirmation; every earlier one has reported.
C10_OneSubscribeInFlight ==
    /\ inflight \in {0, 1}
    /\ (inflight = 1) = (pc \in {"subscribe", "wait"})
    /\ pc \in {"subscribe", "wait"} => Len(outcomes) = i - 1

\* The second subscribe is in flight after the first one's confirmation
\* wait has thrown.
C10_Witness ==
    /\ pc = "wait"
    /\ i = 2
    /\ inflight = 1
    /\ outcomes = <<"confirmation error">>

\* C11: every amount submitted to contract.subscribe lies in the configured
\* range, min * 10^decimalsNum <= amount <= max * 10^decimalsNum, and is
\* never zero.
C11_AmountWithinRange ==
    pc = "subscribe" =>
        /\ minVal * Pow(10, decimalsNum) <= amountParsed * Scale
        /\ amountParsed * Scale <= maxVal * Pow(10, decimalsNum)
        /\ amountParsed > 0

\* C12: with the allowance decreased only by this run's confirmed
\* subscribes, at every subscribe submission the allowance the token records
\* for the contract is at least the submitted amount, whether the approve
\* was performed or skipped.
C12_AllowanceCoversSubscribe ==
    (ledgerOn /\ pc = "subscribe") => amountParsed <= ledger

\* C13: the phases run in a fixed order. Any token call is issued only on a
\* provider whose getNetwork has answered; approve only after allowance()
\* was read once; subscribe only after allowance() has answered and the
\* comparison of line 136 was made, and, when approve was submitted, only
\* after its confirmation wait has answered.
C13_PhaseOrder ==
    /\ (calls.decimals >= 1 \/ calls.allowance >= 1) => provider = "verified"
    /\ calls.allowance >= 1 => calls.decimals = 1 /\ pc # "decimals"
    /\ calls.approve >= 1 =>
          /\ calls.allowance = 1 /\ pc # "allowance"
          /\ allowance \in AllowanceValues
    /\ aprRcpt = "receipt" => calls.approve = 1
    /\ calls.subscribe >= 1 =>
          /\ provider = "verified"
          /\ calls.allowance = 1 /\ pc \notin {"allowance", "approve", "approveWait"}
          /\ allowance \in AllowanceValues
          /\ calls.approve = IF AllowTooSmall(lib, allowance, approxMaxNeeded)
                             THEN 1 ELSE 0
          /\ calls.approve = 1 => aprRcpt = "receipt"

\* The first subscribe is submitted after an approve that was confirmed.
C13_Witness ==
    /\ pc = "subscribe"
    /\ calls.subscribe = 1
    /\ calls.approve = 1
    /\ aprRcpt = "receipt"
    /\ provider = "verified"

\* C14: every decimal string handed to parseUnits has at most decimalsNum
\* fractional digits: the text of maxVal at line 132 as well as the amount
\* string of each iteration, so that neither parse ends the run in the
\* fatal handler.
C14_ParserInputWithinPrecision ==
    /\ thrown \notin {"parseUnits", "amount"}
    /\ (calls.decimals = 1 /\ pc # "decimals" /\ thrown # "decimals") =>
          Len(FracPart(NumberToString(maxVal))) <= decimalsNum
    /\ InLoop => Len(FracPart(nominalStr)) <= decimalsNum

\* What every iteration reads and the loop never writes.
LoopFrame == <<decimalsNum, approxMaxNeeded, allowance, minVal, maxVal, loops,
               delayMin, delayMax, valueWei, GAS_LIMIT, SUBSCRIBE_VALUE, lib, aprRcpt>>

\* A step taken inside the submission loop, whatever the iteration's outcome.
LoopStepKeepsFrame ==
    InLoop =>
        /\ UNCHANGED LoopFrame
        /\ calls'.decimals = calls.decimals
        /\ calls'.allowance = calls.allowance
        /\ calls'.approve = calls.approve
        /\ i' \in {i, i + 1}
        /\ (i' = i + 1 /\ pc' = "subscribe") =>
              /\ nominal' \in RandomFloats(minVal, maxVal)
              /\ nominalStr' = ToFixed(nominal', decimalsNum)
              /\ amountParsed' = ParseUnits(nominalStr', decimalsNum).val

\* C15: the outcome of an iteration changes nothing the next iteration
\* uses. The precision, min and max, the attached payment value, the gas
\* limit and the delay bounds are the same in every iteration; decimals()
\* and allowance() are each called exactly once per run; from one iteration
\* to the next only the counter i advances, and the next amount depends on
\* its own draw and the unchanged configuration alone.
C15_IterationFrame ==
    /\ []((InLoop \/ pc = "done") =>
            /\ calls.decimals = 1 /\ calls.allowance = 1
            /\ valueWei = ParseEther(SUBSCRIBE_VALUE).val
            /\ GAS_LIMIT \in GasLimits)
    /\ [][LoopStepKeepsFrame]_vars

\* The second iteration is submitted after the first one failed.
C15_Witness ==
    /\ pc = "subscribe"
    /\ i = 2
    /\ outcomes = <<"submission error">>
    /\ calls.decimals = 1 /\ calls.allowance = 1

====
